---- MODULE Spec2Model ----
(***************************************************************************)
(* Phaser.BitmapData (src/gameobjects/BitmapData.js): a canvas-backed      *)
(* drawing surface with a dirty flag, direct pixel access and a chainable  *)
(* facade over the 2D drawing context.                                     *)
(*                                                                         *)
(* Modelling notes.                                                        *)
(*  - A pixel is one packed 32-bit word (little-endian ABGR, as the        *)
(*    Int32Array view of the ImageData bytes shows it).  Colours are       *)
(*    opaque (alpha 255) or the fully transparent initial 0: those are the *)
(*    values a canvas stores without loss under alpha premultiplication,   *)
(*    so putImageData/getImageData are exact copies on this domain.        *)
(*  - The host has typed arrays (imageData.data.buffer exists), which      *)
(*    refreshBuffer's Int32Array requires anyway.                          *)
(*  - The drawing engine is external.  Rectangle commands paint the part   *)
(*    of the rectangle that lies on the surface (identity transform, no    *)
(*    clip); fill() and stroke() paint a region the engine derives from    *)
(*    its path, drawn here from a small set of regions.  The context's     *)
(*    style state stays inside the engine: the model records the values    *)
(*    the setters hand over, and a paint is in some colour of Colors.      *)
(*  - issued is the list of calls the last operation delegated to its      *)
(*    collaborators (context, consumers, upload queue); call and ret are   *)
(*    the last operation and what its caller received.                     *)
(*  - Angles are in degrees and the ellipse control points in units of     *)
(*    1 / EllipseScale, so that all arithmetic stays in the integers.      *)
(***************************************************************************)
EXTENDS Integers, Sequences, FiniteSets, TLC

\* ---------------------------------------------------------------- bounds
MaxQueue == 2
MaxSprites == 2

\* the sizes a surface is constructed with
Dims == {<<1, 2>>, <<2, 1>>}

Black == [r |-> 0, g |-> 0, b |-> 0, a |-> 255]
Tint == [r |-> 1, g |-> 2, b |-> 3, a |-> 255]
Colors == {Black, Tint}

\* colour and ratio arrays handed to the gradient helpers
GradientArgs == {[colors |-> <<Black, Tint>>, ratios |-> <<0, 1>>]}

Points == {<<1, 1>>}

\* ------------------------------------------------------------- constants
\* game.renderType values
WEBGL == "WEBGL"
CANVAS == "CANVAS"

\* what a caller can receive
Returned(kind, value) == [kind |-> kind, value |-> value]
THIS == Returned("this", 0)
UNDEFINED == Returned("undefined", 0)
TYPE_ERROR == Returned("TypeError", 0)
OBJECT == Returned("object", 0)
\* a packed pixel value handed back
Number(n) == Returned("number", n)

\* an optional argument: left out, or given
Omitted == <<>>
Given(v) == <<v>>

\* Math.PI * 2, in degrees
TwoPi == 360
\* k = 0.5522848 as EllipseK / 10^7; coordinates of ellipse() are in units of
\* 1 / EllipseScale, EllipseScale = 2 * 10^7
EllipseK == 5522848
EllipseHalf == 10000000
EllipseScale == 20000000

Consumers == {"sprite1", "sprite2", "plain"}
\* consumers that expose a texture (and loadTexture), as a Phaser.Sprite does
HasTexture(s) == s \in {"sprite1", "sprite2"}

VARIABLES
    width,            \* this.width
    height,           \* this.height
    dirty,            \* this._dirty
    canvas,           \* the context's own pixel store, one packed word per pixel
    imageData,        \* this.imageData: the snapshot last read from the context
    pixels,           \* this.pixels: "ArrayBuffer" or "Int32Array" (a view on imageData)
    texturesToUpdate, \* PIXI.texturesToUpdate
    renderType,       \* game.renderType
    call,             \* the last operation and its arguments
    ret,              \* what the caller of the last operation received
    issued,           \* calls the last operation delegated to collaborators
    changed           \* ghost: canvas contents differ from those at the last render()

vars == <<width, height, dirty, canvas, imageData, pixels,
          texturesToUpdate, renderType, call, ret, issued, changed>>

\* ------------------------------------------------------------- helpers
\* (alpha << 24) | (blue << 16) | (green << 8) | red, for channels in 0..255:
\* the operands' bits do not overlap, so | adds, and the result is a signed
\* 32-bit integer whose sign bit is the top bit of alpha
Pack(red, green, blue, alpha) ==
    LET top == IF alpha >= 128 THEN alpha - 256 ELSE alpha
    IN top * 16777216 + blue * 65536 + green * 256 + red

PackColor(c) == Pack(c.r, c.g, c.b, c.a)

\* the bounds test of setPixel32 / getPixel / getPixel32
InBounds(x, y) == x >= 0 /\ x <= width /\ y >= 0 /\ y <= height

\* y * this.width + x
Index(x, y) == y * width + x

\* the coordinates that address a pixel of the surface
OnSurface(x, y) == x >= 0 /\ x < width /\ y >= 0 /\ y < height

\* coordinate arguments tried: every pair the bounds test accepts, and for each
\* of its four comparisons a pair that fails only that one
Coords ==
    {<<x, y>> : x \in 0 .. width, y \in 0 .. height}
        \cup {<<0 - 1, 0>>, <<width + 1, 0>>, <<0, 0 - 1>>, <<0, height + 1>>}

\* pixels[i] = v on an Int32Array over the ImageData bytes: an index past the
\* end of a typed array is ignored
ViewStore(data, i, v) ==
    IF i \in DOMAIN data THEN [data EXCEPT ![i] = v] ELSE data

\* pixels[i] = v: on the ArrayBuffer the constructor leaves in this.pixels the
\* assignment makes an own property of the buffer object and no byte changes
PixelsStore(kind, data, i, v) ==
    IF kind = "Int32Array" THEN ViewStore(data, i, v) ELSE data

Cmd(name, args) == [cmd |-> name, args |-> args]

Op(name, args) == [op |-> name, args |-> args]

\* rectangles handed to the rectangle commands: the whole surface, its first pixel
Rects == {<<0, 0, width, height>>, <<0, 0, 1, 1>>}

\* the pixels of the surface inside the rectangle
RectRegion(x, y, w, h) ==
    {i \in DOMAIN canvas :
        \E px \in 0 .. (width - 1), py \in 0 .. (height - 1) :
            /\ i = py * width + px
            /\ x <= px /\ px < x + w
            /\ y <= py /\ py < y + h}

\* regions the engine can rasterise for the current path
PathRegions == {{}} \cup {RectRegion(q[1], q[2], q[3], q[4]) : q \in Rects}

\* the store after the engine set every pixel of the region to v
Painted(region, v) == [i \in DOMAIN canvas |-> IF i \in region THEN v ELSE canvas[i]]

\* the stores a fill or stroke of the region can leave: one per colour
PaintedBy(region) == {Painted(region, PackColor(c)) : c \in Colors}

\* ---------------------------------------------------------------- Init
Init ==
    /\ \E d \in Dims : width = d[1] /\ height = d[2]
    /\ dirty = FALSE
    /\ canvas = [i \in 0 .. (width * height - 1) |-> 0]
    /\ imageData = canvas
    /\ pixels = "ArrayBuffer"
    /\ texturesToUpdate = <<>>
    /\ renderType \in {WEBGL, CANVAS}
    /\ call = Op("new", <<width, height>>)
    /\ ret = THIS
    /\ issued = <<Cmd("getImageData", <<0, 0, width, height>>)>>
    /\ changed = FALSE

\* an operation that touches none of the surface's own fields
Reads == UNCHANGED <<width, height, dirty, canvas, imageData, pixels,
                     texturesToUpdate, renderType, changed>>

\* what every operation but the constructor leaves alone
Fixed == UNCHANGED <<width, height, renderType>>

\* the last operation, what its caller received and what it delegated
Did(name, args, r, cmds) ==
    /\ call' = Op(name, args)
    /\ ret' = r
    /\ issued' = cmds

\* a facade operation: whether it marks the surface dirty, and the store the
\* context is left with
Drawn(marks, store) ==
    /\ dirty' = (dirty \/ marks)
    /\ canvas' = store
    /\ changed' = (changed \/ store # canvas)
    /\ UNCHANGED <<imageData, pixels, texturesToUpdate>>
    /\ Fixed

\* --------------------------------------------------- consumer binding
add(sprite) ==
    /\ IF HasTexture(sprite)
       THEN Did("add", <<sprite>>, UNDEFINED, <<Cmd("loadTexture", <<sprite, THIS>>)>>)
       ELSE Did("add", <<sprite>>, TYPE_ERROR, <<>>)
    /\ Reads

\* the loop without its test of sprites[i].texture
LoadAll_Every(sprites) ==
    [i \in 1 .. Len(sprites) |-> Cmd("loadTexture", <<sprites[i], THIS>>)]

RECURSIVE LoadAll(_)
LoadAll(sprites) ==
    IF sprites = <<>>
    THEN <<>>
    ELSE (IF HasTexture(Head(sprites))
          THEN <<Cmd("loadTexture", <<Head(sprites), THIS>>)>>
          ELSE <<>>) \o LoadAll(Tail(sprites))

addTo(sprites) ==
    /\ Did("addTo", sprites, UNDEFINED, LoadAll(sprites))
    /\ Reads

\* ------------------------------------------------------- pixel access
clear ==
    /\ Drawn(TRUE, Painted(RectRegion(0, 0, width, height), 0))
    /\ Did("clear", <<>>, UNDEFINED, <<Cmd("clearRect", <<0, 0, width, height>>)>>)

\* refreshBuffer that also resets this._dirty
refreshBuffer_Clears ==
    /\ imageData' = canvas
    /\ pixels' = "Int32Array"
    /\ dirty' = FALSE
    /\ Did("refreshBuffer", <<>>, UNDEFINED,
           <<Cmd("getImageData", <<0, 0, width, height>>)>>)
    /\ UNCHANGED <<canvas, texturesToUpdate, changed>>
    /\ Fixed

refreshBuffer ==
    /\ imageData' = canvas
    /\ pixels' = "Int32Array"
    /\ Did("refreshBuffer", <<>>, UNDEFINED,
           <<Cmd("getImageData", <<0, 0, width, height>>)>>)
    /\ UNCHANGED <<dirty, canvas, texturesToUpdate, changed>>
    /\ Fixed

\* setPixel32 with this._dirty = true outside the bounds test
SetPixel32Body_AlwaysDirty(x, y, red, green, blue, alpha) ==
    IF InBounds(x, y)
    THEN LET data == PixelsStore(pixels, imageData, Index(x, y),
                                 Pack(red, green, blue, alpha))
         IN /\ imageData' = data
            /\ canvas' = data
            /\ dirty' = TRUE
            /\ changed' = (changed \/ data # canvas)
            /\ issued' = <<Cmd("putImageData", <<0, 0>>)>>
    ELSE /\ issued' = <<>>
         /\ dirty' = TRUE
         /\ UNCHANGED <<imageData, canvas, changed>>

\* the body of setPixel32, which setPixel calls
SetPixel32Body(x, y, red, green, blue, alpha) ==
    IF InBounds(x, y)
    THEN LET data == PixelsStore(pixels, imageData, Index(x, y),
                                 Pack(red, green, blue, alpha))
         IN /\ imageData' = data
            /\ canvas' = data
            /\ dirty' = TRUE
            /\ changed' = (changed \/ data # canvas)
            /\ issued' = <<Cmd("putImageData", <<0, 0>>)>>
    ELSE /\ issued' = <<>>
         /\ UNCHANGED <<imageData, canvas, dirty, changed>>

setPixel32(x, y, c) ==
    /\ SetPixel32Body(x, y, c.r, c.g, c.b, c.a)
    /\ call' = Op("setPixel32", <<x, y, c.r, c.g, c.b, c.a>>)
    /\ ret' = UNDEFINED
    /\ UNCHANGED <<pixels, texturesToUpdate>>
    /\ Fixed

setPixel(x, y, c) ==
    /\ SetPixel32Body(x, y, c.r, c.g, c.b, 255)
    /\ call' = Op("setPixel", <<x, y, c.r, c.g, c.b>>)
    /\ ret' = UNDEFINED
    /\ UNCHANGED <<pixels, texturesToUpdate>>
    /\ Fixed

\* this.data32 is never assigned: reading an element of it is a TypeError
Data32Read(i) == TYPE_ERROR

GetPixelResult(x, y) ==
    IF InBounds(x, y) THEN Data32Read(Index(x, y)) ELSE UNDEFINED

getPixel(x, y) ==
    /\ Did("getPixel", <<x, y>>, GetPixelResult(x, y), <<>>)
    /\ Reads

getPixel32(x, y) ==
    /\ Did("getPixel32", <<x, y>>, GetPixelResult(x, y), <<>>)
    /\ Reads

getPixels(q) ==
    /\ Did("getPixels", q, OBJECT, <<Cmd("getImageData", q)>>)
    /\ Reads

\* ------------------------------------------------------ vector facade
\* the default the documentation of arc states: anticlockwise = true
ArcCall_DefaultTrue(x, y, radius, startAngle, endAngle, anticlockwise) ==
    LET acw == IF anticlockwise = Omitted THEN TRUE ELSE anticlockwise[1]
    IN <<Cmd("arc", <<x, y, radius, startAngle, endAngle, acw>>)>>

\* what arc hands to the context: an anticlockwise left undefined becomes false
ArcCall(x, y, radius, startAngle, endAngle, anticlockwise) ==
    LET acw == IF anticlockwise = Omitted THEN FALSE ELSE anticlockwise[1]
    IN <<Cmd("arc", <<x, y, radius, startAngle, endAngle, acw>>)>>

arc(x, y, radius, startAngle, endAngle, anticlockwise) ==
    /\ Drawn(TRUE, canvas)
    /\ Did("arc", <<x, y, radius, startAngle, endAngle, anticlockwise>>, THIS,
           ArcCall(x, y, radius, startAngle, endAngle, anticlockwise))

arcTo(x1, y1, x2, y2, radius) ==
    /\ Drawn(TRUE, canvas)
    /\ Did("arcTo", <<x1, y1, x2, y2, radius>>, THIS,
           <<Cmd("arcTo", <<x1, y1, x2, y2, radius>>)>>)

\* fillStyle with a this._dirty = true it does not have
fillStyle_Marks(color) ==
    /\ Drawn(TRUE, canvas)
    /\ Did("fillStyle", <<color>>, THIS, <<Cmd("fillStyle=", <<color>>)>>)

fillStyle(color) ==
    /\ Drawn(FALSE, canvas)
    /\ Did("fillStyle", <<color>>, THIS, <<Cmd("fillStyle=", <<color>>)>>)

strokeStyle(style) ==
    /\ Drawn(FALSE, canvas)
    /\ Did("strokeStyle", <<style>>, THIS, <<Cmd("strokeStyle=", <<style>>)>>)

beginFill(color) ==
    /\ Drawn(FALSE, canvas)
    /\ Did("beginFill", <<color>>, THIS, <<Cmd("fillStyle=", <<color>>)>>)

beginStroke(color) ==
    /\ Drawn(FALSE, canvas)
    /\ Did("beginStroke", <<color>>, THIS, <<Cmd("strokeStyle=", <<color>>)>>)

\* gradient.addColorStop(ratios[i], colors[i]) for i < colors.length
ColorStops(colors, ratios) ==
    [i \in 1 .. Len(colors) |->
        <<IF i \in DOMAIN ratios THEN Given(ratios[i]) ELSE Omitted, colors[i]>>]

AddColorStops(colors, ratios) ==
    [i \in 1 .. Len(colors) |-> Cmd("addColorStop", ColorStops(colors, ratios)[i])]

Gradient(kind, colors, ratios) ==
    [gradient |-> kind, stops |-> ColorStops(colors, ratios)]

beginLinearGradientFill(colors, ratios, x0, y0, x1, y1) ==
    LET gradient == Gradient("linear", colors, ratios)
    IN /\ Drawn(FALSE, canvas)
       /\ Did("beginLinearGradientFill", <<colors, ratios, x0, y0, x1, y1>>, THIS,
              <<Cmd("createLinearGradient", <<x0, y0, x1, y1>>)>>
                  \o AddColorStops(colors, ratios)
                  \o <<Cmd("fillStyle=", <<gradient>>)>>)

beginLinearGradientStroke(colors, ratios, x0, y0, x1, y1) ==
    LET gradient == Gradient("linear", colors, ratios)
    IN /\ Drawn(FALSE, canvas)
       /\ Did("beginLinearGradientStroke", <<colors, ratios, x0, y0, x1, y1>>, THIS,
              <<Cmd("createLinearGradient", <<x0, y0, x1, y1>>)>>
                  \o AddColorStops(colors, ratios)
                  \o <<Cmd("strokeStyle=", <<gradient>>)>>)

\* the prototype has no beginRadialGradientFill (the shortcut rf is assigned
\* that undefined property): calling it is a TypeError
beginRadialGradientFill(colors, ratios, x0, y0, r0, x1, y1, r1) ==
    /\ Did("beginRadialGradientFill", <<colors, ratios, x0, y0, r0, x1, y1, r1>>,
           TYPE_ERROR, <<>>)
    /\ Reads

beginRadialGradientStroke(colors, ratios, x0, y0, r0, x1, y1, r1) ==
    LET gradient == Gradient("radial", colors, ratios)
    IN /\ Drawn(FALSE, canvas)
       /\ Did("beginRadialGradientStroke", <<colors, ratios, x0, y0, r0, x1, y1, r1>>,
              THIS,
              <<Cmd("createRadialGradient", <<x0, y0, r0, x1, y1, r1>>)>>
                  \o AddColorStops(colors, ratios)
                  \o <<Cmd("strokeStyle=", <<gradient>>)>>)

beginPath ==
    /\ Drawn(FALSE, canvas)
    /\ Did("beginPath", <<>>, THIS, <<Cmd("beginPath", <<>>)>>)

bezierCurveTo(cp1x, cp1y, cp2x, cp2y, x, y) ==
    /\ Drawn(TRUE, canvas)
    /\ Did("bezierCurveTo", <<cp1x, cp1y, cp2x, cp2y, x, y>>, THIS,
           <<Cmd("bezierCurveTo", <<cp1x, cp1y, cp2x, cp2y, x, y>>)>>)

\* this.arc(x, y, radius, 0, Math.PI*2): anticlockwise is left undefined
circle(x, y, radius) ==
    /\ Drawn(TRUE, canvas)
    /\ Did("circle", <<x, y, radius>>, THIS,
           ArcCall(x, y, radius, 0, TwoPi, Omitted))

clearRect(x, y, w, h) ==
    /\ Drawn(TRUE, Painted(RectRegion(x, y, w, h), 0))
    /\ Did("clearRect", <<x, y, w, h>>, THIS, <<Cmd("clearRect", <<x, y, w, h>>)>>)

clip ==
    /\ Drawn(TRUE, canvas)
    /\ Did("clip", <<>>, THIS, <<Cmd("clip", <<>>)>>)

closePath ==
    /\ Drawn(TRUE, canvas)
    /\ Did("closePath", <<>>, THIS, <<Cmd("closePath", <<>>)>>)

createLinearGradient(x, y, w, h) ==
    /\ Did("createLinearGradient", <<x, y, w, h>>, OBJECT,
           <<Cmd("createLinearGradient", <<x, y, w, h>>)>>)
    /\ Reads

createRadialGradient(x0, y0, r0, x1, y1, r1) ==
    /\ Did("createRadialGradient", <<x0, y0, r0, x1, y1, r1>>, OBJECT,
           <<Cmd("createRadialGradient", <<x0, y0, r0, x1, y1, r1>>)>>)
    /\ Reads

\* moveTo and four bezierCurveTo; every coordinate times EllipseScale
ellipse(x, y, w, h) ==
    LET ox == w * EllipseK
        oy == h * EllipseK
        x0 == x * EllipseScale
        y0 == y * EllipseScale
        xe == (x + w) * EllipseScale
        ye == (y + h) * EllipseScale
        xm == x * EllipseScale + w * EllipseHalf
        ym == y * EllipseScale + h * EllipseHalf
    IN /\ Drawn(TRUE, canvas)
       /\ Did("ellipse", <<x, y, w, h>>, THIS,
              << Cmd("moveTo", <<x0, ym>>),
                 Cmd("bezierCurveTo", <<x0, ym - oy, xm - ox, y0, xm, y0>>),
                 Cmd("bezierCurveTo", <<xm + ox, y0, xe, ym - oy, xe, ym>>),
                 Cmd("bezierCurveTo", <<xe, ym + oy, xm + ox, ye, xm, ye>>),
                 Cmd("bezierCurveTo", <<xm - ox, ye, x0, ym + oy, x0, ym>>) >>)

fill(store) ==
    /\ Drawn(TRUE, store)
    /\ Did("fill", <<>>, THIS, <<Cmd("fill", <<>>)>>)

\* fillRect without this._dirty = true
fillRect_Unmarked(x, y, w, h, store) ==
    /\ Drawn(FALSE, store)
    /\ Did("fillRect", <<x, y, w, h>>, THIS, <<Cmd("fillRect", <<x, y, w, h>>)>>)

fillRect(x, y, w, h, store) ==
    /\ Drawn(TRUE, store)
    /\ Did("fillRect", <<x, y, w, h>>, THIS, <<Cmd("fillRect", <<x, y, w, h>>)>>)

\* a setter of one property of the context that the model does not keep
Setter(name, value) ==
    /\ Drawn(FALSE, canvas)
    /\ Did(name, <<value>>, THIS, <<Cmd(name \o "=", <<value>>)>>)

font(f) == Setter("font", f)

globalAlpha(alpha) == Setter("globalAlpha", alpha)

globalCompositeOperation(operation) == Setter("globalCompositeOperation", operation)

lineCap(style) == Setter("lineCap", style)

lineDashOffset(offset) == Setter("lineDashOffset", offset)

lineJoin(join) == Setter("lineJoin", join)

lineWidth(w) == Setter("lineWidth", w)

miterLimit(limit) == Setter("miterLimit", limit)

\* lineTo without this._dirty = true
lineTo_Unmarked(x, y) ==
    /\ Drawn(FALSE, canvas)
    /\ Did("lineTo", <<x, y>>, THIS, <<Cmd("lineTo", <<x, y>>)>>)

lineTo(x, y) ==
    /\ Drawn(TRUE, canvas)
    /\ Did("lineTo", <<x, y>>, THIS, <<Cmd("lineTo", <<x, y>>)>>)

moveTo(x, y) ==
    /\ Drawn(FALSE, canvas)
    /\ Did("moveTo", <<x, y>>, THIS, <<Cmd("moveTo", <<x, y>>)>>)

quadraticCurveTo(cpx, cpy, x, y) ==
    /\ Drawn(TRUE, canvas)
    /\ Did("quadraticCurveTo", <<cpx, cpy, x, y>>, THIS,
           <<Cmd("quadraticCurveTo", <<cpx, cpy, x, y>>)>>)

rect(x, y, w, h) ==
    /\ Drawn(TRUE, canvas)
    /\ Did("rect", <<x, y, w, h>>, THIS, <<Cmd("rect", <<x, y, w, h>>)>>)

restore ==
    /\ Drawn(TRUE, canvas)
    /\ Did("restore", <<>>, THIS, <<Cmd("restore", <<>>)>>)

rotate(angle) ==
    /\ Drawn(TRUE, canvas)
    /\ Did("rotate", <<angle>>, THIS, <<Cmd("rotate", <<angle>>)>>)

\* undefined arguments take the defaults 1, 'butt', 'miter', 10
setStrokeStyle(thickness, caps, joints, limit) ==
    LET t == IF thickness = Omitted THEN 1 ELSE thickness[1]
        c == IF caps = Omitted THEN "butt" ELSE caps[1]
        j == IF joints = Omitted THEN "miter" ELSE joints[1]
        m == IF limit = Omitted THEN 10 ELSE limit[1]
    IN /\ Drawn(FALSE, canvas)
       /\ Did("setStrokeStyle", <<thickness, caps, joints, limit>>, THIS,
              << Cmd("lineWidth=", <<t>>), Cmd("lineCap=", <<c>>),
                 Cmd("lineJoin=", <<j>>), Cmd("miterLimit=", <<m>>) >>)

save ==
    /\ Drawn(TRUE, canvas)
    /\ Did("save", <<>>, THIS, <<Cmd("save", <<>>)>>)

scale(x, y) ==
    /\ Drawn(TRUE, canvas)
    /\ Did("scale", <<x, y>>, THIS, <<Cmd("scale", <<x, y>>)>>)

scrollPathIntoView ==
    /\ Drawn(TRUE, canvas)
    /\ Did("scrollPathIntoView", <<>>, THIS, <<Cmd("scrollPathIntoView", <<>>)>>)

stroke(store) ==
    /\ Drawn(TRUE, store)
    /\ Did("stroke", <<>>, THIS, <<Cmd("stroke", <<>>)>>)

strokeRect(x, y, w, h, store) ==
    /\ Drawn(TRUE, store)
    /\ Did("strokeRect", <<x, y, w, h>>, THIS, <<Cmd("strokeRect", <<x, y, w, h>>)>>)

\* ------------------------------------------------------ synchronization
\* render without this._dirty = false
render_KeepsDirty ==
    /\ (dirty /\ renderType = WEBGL) => Len(texturesToUpdate) < MaxQueue
    /\ IF dirty /\ renderType = WEBGL
       THEN /\ texturesToUpdate' = Append(texturesToUpdate, "baseTexture")
            /\ issued' = <<Cmd("texturesToUpdate.push", <<"baseTexture">>)>>
       ELSE /\ issued' = <<>>
            /\ UNCHANGED texturesToUpdate
    /\ changed' = FALSE
    /\ call' = Op("render", <<>>)
    /\ ret' = UNDEFINED
    /\ UNCHANGED <<dirty, canvas, imageData, pixels>>
    /\ Fixed

\* render without the test of this._dirty
render_Unconditional ==
    /\ renderType = WEBGL => Len(texturesToUpdate) < MaxQueue
    /\ IF renderType = WEBGL
       THEN /\ texturesToUpdate' = Append(texturesToUpdate, "baseTexture")
            /\ issued' = <<Cmd("texturesToUpdate.push", <<"baseTexture">>)>>
       ELSE /\ issued' = <<>>
            /\ UNCHANGED texturesToUpdate
    /\ dirty' = FALSE
    /\ changed' = FALSE
    /\ call' = Op("render", <<>>)
    /\ ret' = UNDEFINED
    /\ UNCHANGED <<canvas, imageData, pixels>>
    /\ Fixed

\* render without the test of game.renderType: a dirty surface is always queued
render_AnyRenderer ==
    /\ dirty => Len(texturesToUpdate) < MaxQueue
    /\ IF dirty
       THEN /\ texturesToUpdate' = Append(texturesToUpdate, "baseTexture")
            /\ issued' = <<Cmd("texturesToUpdate.push", <<"baseTexture">>)>>
            /\ dirty' = FALSE
       ELSE /\ issued' = <<>>
            /\ UNCHANGED <<texturesToUpdate, dirty>>
    /\ changed' = FALSE
    /\ call' = Op("render", <<>>)
    /\ ret' = UNDEFINED
    /\ UNCHANGED <<canvas, imageData, pixels>>
    /\ Fixed

render ==
    /\ (dirty /\ renderType = WEBGL) => Len(texturesToUpdate) < MaxQueue
    /\ IF dirty
       THEN /\ IF renderType = WEBGL
               THEN /\ texturesToUpdate' = Append(texturesToUpdate, "baseTexture")
                    /\ issued' = <<Cmd("texturesToUpdate.push", <<"baseTexture">>)>>
               ELSE /\ issued' = <<>>
                    /\ UNCHANGED texturesToUpdate
            /\ dirty' = FALSE
       ELSE /\ issued' = <<>>
            /\ UNCHANGED <<texturesToUpdate, dirty>>
    /\ changed' = FALSE
    /\ call' = Op("render", <<>>)
    /\ ret' = UNDEFINED
    /\ UNCHANGED <<canvas, imageData, pixels>>
    /\ Fixed

\* ---------------------------------------------------------------- Next
SpriteLists == UNION {[1 .. n -> Consumers] : n \in 0 .. MaxSprites}

Bind ==
    \/ \E s \in Consumers : add(s)
    \/ \E sprites \in SpriteLists : addTo(sprites)

PixelAccess ==
    \/ clear
    \/ refreshBuffer
    \/ \E p \in Coords, c \in Colors : setPixel32(p[1], p[2], c)
    \/ \E p \in Coords, c \in Colors : setPixel(p[1], p[2], c)
    \/ \E p \in Coords : getPixel(p[1], p[2])
    \/ \E p \in Coords : getPixel32(p[1], p[2])
    \/ \E q \in Rects : getPixels(q)

PathBuilding ==
    \/ \E p \in Points, acw \in {Omitted, Given(TRUE), Given(FALSE)} :
          arc(p[1], p[2], 1, 0, TwoPi, acw)
    \/ \E p \in Points : arcTo(0, 0, p[1], p[2], 1)
    \/ beginPath
    \/ \E p \in Points : bezierCurveTo(0, 0, 1, 0, p[1], p[2])
    \/ \E p \in Points : circle(p[1], p[2], 1)
    \/ clip
    \/ closePath
    \/ \E p \in Points : ellipse(p[1], p[2], 2, 1)
    \/ \E p \in Points : lineTo(p[1], p[2])
    \/ \E p \in Points : moveTo(p[1], p[2])
    \/ \E p \in Points : quadraticCurveTo(0, 0, p[1], p[2])
    \/ \E q \in Rects : rect(q[1], q[2], q[3], q[4])

Painting ==
    \/ \E q \in Rects : clearRect(q[1], q[2], q[3], q[4])
    \/ \E region \in PathRegions : \E store \in PaintedBy(region) : fill(store)
    \/ \E q \in Rects :
          \E store \in PaintedBy(RectRegion(q[1], q[2], q[3], q[4])) :
              fillRect(q[1], q[2], q[3], q[4], store)
    \/ \E region \in PathRegions : \E store \in PaintedBy(region) : stroke(store)
    \/ \E q \in Rects :
          \E store \in PaintedBy(RectRegion(q[1], q[2], q[3], q[4])) :
              strokeRect(q[1], q[2], q[3], q[4], store)

Styling ==
    \/ \E c \in Colors : fillStyle(c)
    \/ \E c \in Colors : strokeStyle(c)
    \/ \E c \in Colors : beginFill(c)
    \/ \E c \in Colors : beginStroke(c)
    \/ \E g \in GradientArgs : beginLinearGradientFill(g.colors, g.ratios, 0, 0, 1, 1)
    \/ \E g \in GradientArgs : beginLinearGradientStroke(g.colors, g.ratios, 0, 0, 1, 1)
    \/ \E g \in GradientArgs :
          beginRadialGradientFill(g.colors, g.ratios, 0, 0, 0, 0, 0, 1)
    \/ \E g \in GradientArgs :
          beginRadialGradientStroke(g.colors, g.ratios, 0, 0, 0, 0, 0, 1)
    \/ createLinearGradient(0, 0, 1, 1)
    \/ createRadialGradient(0, 0, 0, 0, 0, 1)
    \/ font("10px sans-serif")
    \/ globalAlpha(1)
    \/ globalCompositeOperation("source-over")
    \/ lineCap("round")
    \/ lineDashOffset(1)
    \/ lineJoin("bevel")
    \/ lineWidth(2)
    \/ miterLimit(5)
    \/ \E t \in {Omitted, Given(2)} : setStrokeStyle(t, Omitted, Given("round"), Omitted)

Transform ==
    \/ restore
    \/ rotate(90)
    \/ save
    \/ scale(1, 1)
    \/ scrollPathIntoView

Next ==
    \/ Bind
    \/ PixelAccess
    \/ PathBuilding
    \/ Painting
    \/ Styling
    \/ Transform
    \/ render

Spec == Init /\ [][Next]_vars

\* ------------------------------------------------------------ properties
\* C1 as stated: dirty is true if and only if some operation has changed the
\* pixel contents since the last render() (or since construction).
C1_DirtyIffChanged == dirty <=> changed

\* C1, amended: if some operation has changed the canvas pixel contents since
\* the last render() (or since construction), dirty is true.
C1_ChangedImpliesDirty == changed => dirty

C1_Witness == call.op = "fillRect" /\ changed /\ dirty

\* C2 as stated: render() called while dirty adds exactly one notification for
\* the surface's texture to the upload queue and leaves dirty false.
C2_RenderAlwaysUploads ==
    [][(call'.op = "render" /\ dirty)
          => /\ texturesToUpdate' = Append(texturesToUpdate, "baseTexture")
             /\ ~dirty']_vars

\* C2, amended: render() called while dirty leaves dirty false, and when the
\* renderer is WEBGL it adds exactly one notification for the surface's own
\* texture to the upload queue.
C2_RenderUploadsInWebGL ==
    [][(call'.op = "render" /\ dirty)
          => /\ renderType = WEBGL
                  => texturesToUpdate' = Append(texturesToUpdate, "baseTexture")
             /\ ~dirty']_vars

C2_Witness ==
    /\ call.op = "render"
    /\ renderType = WEBGL
    /\ Len(issued) = 1
    /\ texturesToUpdate = <<"baseTexture">>
    /\ ~dirty

\* C3: render() called with dirty false adds nothing to the upload queue and
\* leaves dirty, the pixel buffer and the context's store unchanged; the queue
\* only ever grows by one entry, in a render() that found dirty true.
C3_RenderIdempotent ==
    [][/\ (call'.op = "render" /\ ~dirty)
            => UNCHANGED <<texturesToUpdate, dirty, canvas, imageData, pixels>>
       /\ texturesToUpdate' # texturesToUpdate
            => /\ call'.op = "render"
               /\ dirty
               /\ Len(texturesToUpdate') = Len(texturesToUpdate) + 1]_vars

\* a render() that found nothing to do, after one that uploaded
C3_Witness ==
    /\ call.op = "render"
    /\ renderType = WEBGL
    /\ issued = <<>>
    /\ Len(texturesToUpdate) = 1
    /\ ~dirty

\* C4: dirty is false right after construction, and the only step that takes
\* dirty from true to false is render().
C4_OnlyRenderClears ==
    /\ [](call.op = "new" => ~dirty)
    /\ [][(dirty /\ ~dirty') => call'.op = "render"]_vars

\* render() has cleared dirty twice
C4_Witness ==
    /\ call.op = "render"
    /\ ~dirty
    /\ Len(texturesToUpdate) = 2

\* the operations of C5: those that can alter the buffer's contents
BufferOps ==
    {"clear", "clearRect", "fillRect", "strokeRect", "fill", "stroke", "lineTo",
     "arc", "arcTo", "bezierCurveTo", "quadraticCurveTo", "rect", "closePath"}

\* C5: after clear, clearRect, fillRect, strokeRect, fill, stroke, lineTo, arc,
\* arcTo, bezierCurveTo, quadraticCurveTo, rect or closePath, dirty is true
\* whatever it was before, and it stays true until the next render().
C5_BufferOpsMarkDirty ==
    /\ [](call.op \in BufferOps => dirty)
    /\ [][(call'.op \in BufferOps) => dirty']_vars
    /\ [][(dirty /\ call'.op # "render") => dirty']_vars

\* a path-building call on a clean surface has marked it
C5_Witness == call.op = "lineTo" /\ dirty /\ ~changed /\ texturesToUpdate = <<>>

\* the setters of C6
StyleOps ==
    {"fillStyle", "strokeStyle", "lineWidth", "lineCap", "lineJoin", "miterLimit",
     "lineDashOffset", "font", "globalAlpha", "globalCompositeOperation",
     "beginFill", "beginStroke", "setStrokeStyle"}

\* C6: fillStyle, strokeStyle, lineWidth, lineCap, lineJoin, miterLimit,
\* lineDashOffset, font, globalAlpha, globalCompositeOperation, beginFill,
\* beginStroke and setStrokeStyle leave dirty and the pixel buffer unchanged.
C6_SettersLeaveDirty ==
    [][(call'.op \in StyleOps) => UNCHANGED <<dirty, canvas, imageData, pixels>>]_vars

\* a setter has run on a clean surface
C6_Witness == call.op \in StyleOps /\ ~dirty /\ ret = THIS

\* C7: for 0 <= x < width and 0 <= y < height, setPixel32(x,y,r,g,b,a)
\* immediately followed by getPixel32(x,y) returns (a<<24)|(b<<16)|(g<<8)|r.
C7_SetThenGet ==
    [][(/\ call.op = "setPixel32"
        /\ OnSurface(call.args[1], call.args[2])
        /\ call'.op = "getPixel32"
        /\ call'.args = <<call.args[1], call.args[2]>>)
          => ret' = Number(Pack(call.args[3], call.args[4], call.args[5],
                                call.args[6]))]_vars

\* the alpha byte of a packed value: bits 31..24
AlphaByte(v) == (v \div 16777216) % 256

\* C8: setPixel(x,y,r,g,b) leaves the surface as setPixel32(x,y,r,g,b,255)
\* does, and getPixel32(x,y) after setPixel returns a value with alpha byte 0xFF.
C8_SetPixelOpaque ==
    [][/\ call'.op = "setPixel"
            => LET x == call'.args[1]
                   y == call'.args[2]
                   data == PixelsStore(pixels, imageData, Index(x, y),
                                       Pack(call'.args[3], call'.args[4],
                                            call'.args[5], 255))
               IN IF x >= 0 /\ x <= width /\ y >= 0 /\ y <= height
                  THEN imageData' = data /\ canvas' = data /\ dirty' /\ pixels' = pixels
                  ELSE UNCHANGED <<dirty, canvas, imageData, pixels>>
       /\ (/\ call.op = "setPixel"
           /\ OnSurface(call.args[1], call.args[2])
           /\ call'.op = "getPixel32"
           /\ call'.args = <<call.args[1], call.args[2]>>)
            => ret'.kind = "number" /\ AlphaByte(ret'.value) = 255]_vars

\* C9: a setPixel32 or setPixel call with x < 0, y < 0, x > width or y > height
\* signals no error and leaves dirty, the packed pixel buffer and the context's
\* pixel store unchanged.
C9_RejectedWriteIsNoOp ==
    [][(/\ call'.op \in {"setPixel32", "setPixel"}
        /\ \/ call'.args[1] < 0
           \/ call'.args[2] < 0
           \/ call'.args[1] > width
           \/ call'.args[2] > height)
          => /\ ret' = UNDEFINED
             /\ issued' = <<>>
             /\ UNCHANGED <<dirty, canvas, imageData, pixels>>]_vars

\* setPixel32(width + 1, 0, ...) on a clean surface
C9_Witness ==
    /\ call.op = "setPixel32"
    /\ call.args[1] = width + 1
    /\ ~dirty
    /\ ret = UNDEFINED

\* C10: after setPixel32(x,y,r,g,b,a) on a pixel of the surface, in any state
\* (also before refreshBuffer has ever run), the context's own pixel store
\* holds the packed value at (x,y).
C10_WriteReachesContext ==
    (call.op = "setPixel32" /\ OnSurface(call.args[1], call.args[2]))
        => canvas[Index(call.args[1], call.args[2])]
               = Pack(call.args[3], call.args[4], call.args[5], call.args[6])

\* the operations of the fill-and-read scenario: the only paint is fillRect
NextFillRead ==
    \/ \E q \in Rects :
          \E store \in PaintedBy(RectRegion(q[1], q[2], q[3], q[4])) :
              fillRect(q[1], q[2], q[3], q[4], store)
    \/ refreshBuffer
    \/ render
    \/ \E p \in Coords : getPixel32(p[1], p[2])

SpecFillRead == Init /\ [][NextFillRead]_vars

\* C11: after a fillRect covering pixel (x,y) in an opaque colour dirty is
\* true, after the following render() dirty is false, and getPixel32(x,y) then
\* returns the packed value of that colour (under SpecFillRead a pixel of the
\* context's store holds a colour only through a fillRect that covered it).
C11_ReadSeesVectorDrawing ==
    /\ [](call.op = "fillRect" => dirty)
    /\ [][(call'.op = "render") => ~dirty']_vars
    /\ [][(/\ call.op = "render"
           /\ call'.op = "getPixel32"
           /\ OnSurface(call'.args[1], call'.args[2])
           /\ \E c \in Colors :
                 canvas[Index(call'.args[1], call'.args[2])] = PackColor(c))
             => ret' = Number(canvas[Index(call'.args[1], call'.args[2])])]_vars

\* C12: getPixel and getPixel32 never raise an error; for a pixel of the
\* surface they return the packed value stored at index y*width+x, for
\* coordinates the bounds test rejects they return undefined, and they change
\* neither dirty nor the pixel buffer nor the context's store.
C12_ReadsNeverThrow ==
    [][(call'.op \in {"getPixel", "getPixel32"})
          => /\ ret'.kind # "TypeError"
             /\ OnSurface(call'.args[1], call'.args[2])
                  => ret' = Number(imageData[Index(call'.args[1], call'.args[2])])
             /\ (\/ call'.args[1] < 0 \/ call'.args[1] > width
                 \/ call'.args[2] < 0 \/ call'.args[2] > height)
                  => ret' = UNDEFINED
             /\ UNCHANGED <<dirty, canvas, imageData, pixels>>]_vars

\* the operations that mark the surface dirty
MutatingOps ==
    {"clear", "setPixel32", "setPixel", "arc", "arcTo", "bezierCurveTo", "circle",
     "clearRect", "clip", "closePath", "ellipse", "fill", "fillRect", "lineTo",
     "quadraticCurveTo", "rect", "restore", "rotate", "save", "scale",
     "scrollPathIntoView", "stroke", "strokeRect"}

\* C13: every mutating operation returns the surface itself: the vector facade
\* operations and equally clear, setPixel32 and setPixel.
C13_MutationsChain == call.op \in MutatingOps => ret = THIS
\* the elements of the sequence that expose a texture, in sequence order
Textured(sprites) == SelectSeq(sprites, HasTexture)

\* C14: addTo(consumers) calls loadTexture(surface) once, in sequence order, on
\* every element that exposes a texture and on no other, raises no error for
\* the skipped elements, hands each consumer the surface itself, and (like
\* add) leaves dirty, the cached view and the context's store unchanged.
C14_AddToBindsTextured ==
    /\ [][(call'.op = "addTo")
            => /\ Len(issued') = Len(Textured(call'.args))
               /\ \A i \in 1 .. Len(issued') :
                     issued'[i] = Cmd("loadTexture", <<Textured(call'.args)[i], THIS>>)
               /\ ret'.kind # "TypeError"
               /\ UNCHANGED <<dirty, canvas, imageData, pixels>>]_vars
    /\ [][(call'.op = "add")
            => /\ HasTexture(call'.args[1])
                    => issued' = <<Cmd("loadTexture", <<call'.args[1], THIS>>)>>
               /\ UNCHANGED <<dirty, canvas, imageData, pixels>>]_vars

\* an addTo that skipped an element and bound the one after it
C14_Witness ==
    /\ call.op = "addTo"
    /\ call.args = <<"plain", "sprite1">>
    /\ issued = <<Cmd("loadTexture", <<"sprite1", THIS>>)>>
    /\ ret = UNDEFINED

\* the one context command of a full clockwise arc
FullArc(x, y, radius) == <<Cmd("arc", <<x, y, radius, 0, TwoPi, FALSE>>)>>

ContextErrors == {1, 2}

\* the caller of the operation received the error e
Thrown(e) == Returned("thrown", e)

\* one call of an operation: the calls it delegates in order, whether it
\* executes this._dirty = true, and how many of the delegated calls precede it
Delegation(name, args, cmds, marks, before) ==
    [op |-> name, args |-> args, cmds |-> cmds, marks |-> marks, before |-> before]

Plain(name, args) == Delegation(name, args, <<Cmd(name, args)>>, FALSE, 0)

Marking(name, args) == Delegation(name, args, <<Cmd(name, args)>>, TRUE, 0)

Assigning(name, value) ==
    Delegation(name, <<value>>, <<Cmd(name \o "=", <<value>>)>>, FALSE, 0)

GradientStops == AddColorStops(<<Black, Tint>>, <<0, 1>>)

\* clear: the context's clearRect comes before this._dirty = true
ClearCall ==
    Delegation("clear", <<>>, <<Cmd("clearRect", <<0, 0, width, height>>)>>, TRUE, 1)

RefreshCall ==
    Delegation("refreshBuffer", <<>>,
               <<Cmd("getImageData", <<0, 0, width, height>>)>>, FALSE, 0)

\* the operations whose delegated calls do not depend on the surface
Delegations ==
    << Delegation("getPixels", <<0, 0, 1, 1>>,
                  <<Cmd("getImageData", <<0, 0, 1, 1>>)>>, FALSE, 0),
       Delegation("arc", <<1, 1, 1, 0, TwoPi, Omitted>>,
                  ArcCall(1, 1, 1, 0, TwoPi, Omitted), TRUE, 0),
       Marking("arcTo", <<0, 0, 1, 1, 1>>),
       Assigning("fillStyle", Tint),
       Assigning("strokeStyle", Tint),
       Delegation("beginFill", <<Tint>>, <<Cmd("fillStyle=", <<Tint>>)>>, FALSE, 0),
       Delegation("beginStroke", <<Tint>>, <<Cmd("strokeStyle=", <<Tint>>)>>, FALSE, 0),
       Delegation("beginLinearGradientFill", <<0, 0, 1, 1>>,
                  <<Cmd("createLinearGradient", <<0, 0, 1, 1>>)>> \o GradientStops
                      \o <<Cmd("fillStyle=", <<"gradient">>)>>, FALSE, 0),
       Delegation("beginLinearGradientStroke", <<0, 0, 1, 1>>,
                  <<Cmd("createLinearGradient", <<0, 0, 1, 1>>)>> \o GradientStops
                      \o <<Cmd("strokeStyle=", <<"gradient">>)>>, FALSE, 0),
       Delegation("beginRadialGradientStroke", <<0, 0, 0, 0, 0, 1>>,
                  <<Cmd("createRadialGradient", <<0, 0, 0, 0, 0, 1>>)>> \o GradientStops
                      \o <<Cmd("strokeStyle=", <<"gradient">>)>>, FALSE, 0),
       Plain("beginPath", <<>>),
       Marking("bezierCurveTo", <<0, 0, 1, 0, 1, 1>>),
       Delegation("circle", <<1, 1, 1>>, ArcCall(1, 1, 1, 0, TwoPi, Omitted), TRUE, 0),
       Marking("clearRect", <<0, 0, 1, 1>>),
       Marking("clip", <<>>),
       Marking("closePath", <<>>),
       Plain("createLinearGradient", <<0, 0, 1, 1>>),
       Plain("createRadialGradient", <<0, 0, 0, 0, 0, 1>>),
       Delegation("ellipse", <<0, 0, 2, 2>>,
                  << Cmd("moveTo", <<0, 1>>),
                     Cmd("bezierCurveTo", <<"first quarter">>),
                     Cmd("bezierCurveTo", <<"second quarter">>),
                     Cmd("bezierCurveTo", <<"third quarter">>),
                     Cmd("bezierCurveTo", <<"fourth quarter">>) >>, TRUE, 1),
       Marking("fill", <<>>),
       Marking("fillRect", <<0, 0, 1, 1>>),
       Assigning("font", "10px sans-serif"),
       Assigning("globalAlpha", 1),
       Assigning("globalCompositeOperation", "source-over"),
       Assigning("lineCap", "round"),
       Assigning("lineDashOffset", 1),
       Assigning("lineJoin", "bevel"),
       Assigning("lineWidth", 2),
       Assigning("miterLimit", 5),
       Marking("lineTo", <<1, 1>>),
       Plain("moveTo", <<1, 1>>),
       Marking("quadraticCurveTo", <<0, 0, 1, 1>>),
       Marking("rect", <<0, 0, 1, 1>>),
       Marking("restore", <<>>),
       Marking("rotate", <<90>>),
       Delegation("setStrokeStyle", <<>>,
                  << Cmd("lineWidth=", <<1>>), Cmd("lineCap=", <<"butt">>),
                     Cmd("lineJoin=", <<"miter">>), Cmd("miterLimit=", <<10>>) >>,
                  FALSE, 0),
       Marking("save", <<>>),
       Marking("scale", <<1, 1>>),
       Marking("scrollPathIntoView", <<>>),
       Marking("stroke", <<>>),
       Marking("strokeRect", <<0, 0, 1, 1>>) >>

\* the k-th delegated call throws e, and the operation has no handler: it
\* ends there, with this._dirty set if that statement had been reached
Throws_Swallowed(d, k, e) ==
    /\ dirty' = (dirty \/ (d.marks /\ d.before < k))
    /\ Did(d.op, d.args, THIS, SubSeq(d.cmds, 1, k) \o <<Cmd("throw", <<e>>)>>)
    /\ UNCHANGED <<canvas, imageData, pixels, texturesToUpdate, changed>>
    /\ Fixed

Throws(d, k, e) ==
    /\ dirty' = (dirty \/ (d.marks /\ d.before < k))
    /\ Did(d.op, d.args, Thrown(e), SubSeq(d.cmds, 1, k) \o <<Cmd("throw", <<e>>)>>)
    /\ UNCHANGED <<canvas, imageData, pixels, texturesToUpdate, changed>>
    /\ Fixed

\* putImageData throws: the write to this.pixels is done, this._dirty = true
\* is not reached
setPixel32Throws(x, y, c, e) ==
    /\ InBounds(x, y)
    /\ imageData' = PixelsStore(pixels, imageData, Index(x, y), PackColor(c))
    /\ Did("setPixel32", <<x, y, c.r, c.g, c.b, c.a>>, Thrown(e),
           <<Cmd("putImageData", <<0, 0>>), Cmd("throw", <<e>>)>>)
    /\ UNCHANGED <<dirty, canvas, pixels, texturesToUpdate, changed>>
    /\ Fixed

\* PIXI.texturesToUpdate.push throws: this._dirty = false is not reached
renderThrows(e) ==
    /\ dirty
    /\ renderType = WEBGL
    /\ Did("render", <<>>, Thrown(e),
           <<Cmd("texturesToUpdate.push", <<"baseTexture">>), Cmd("throw", <<e>>)>>)
    /\ UNCHANGED <<dirty, canvas, imageData, pixels, texturesToUpdate, changed>>
    /\ Fixed

NextFailure ==
    \/ \E store \in PaintedBy(RectRegion(0, 0, width, height)) :
          fillRect(0, 0, width, height, store)
    \/ refreshBuffer
    \/ render
    \/ \E n \in 1 .. Len(Delegations), e \in ContextErrors :
          \E k \in 1 .. Len(Delegations[n].cmds) : Throws(Delegations[n], k, e)
    \/ \E e \in ContextErrors : Throws(ClearCall, 1, e)
    \/ \E e \in ContextErrors : Throws(RefreshCall, 1, e)
    \/ \E c \in Colors, e \in ContextErrors : setPixel32Throws(0, 0, c, e)
    \/ \E e \in ContextErrors : renderThrows(e)

SpecFailure == Init /\ [][NextFailure]_vars

\* the last delegated call of the operation threw
Failed == Len(issued) > 0 /\ issued[Len(issued)].cmd = "throw"

\* C16: when a call delegated to the drawing context or to the texture-upload
\* queue throws, the operation neither catches nor replaces the failure: its
\* caller receives the very error that was thrown, for every facade operation
\* and for render().
C16_FailurePropagates ==
    Failed => ret = Thrown(issued[Len(issued)].args[1])

\* a render() whose upload failed after a paint: the error reached the caller
\* and the surface is still dirty
C16_Witness ==
    /\ call.op = "render"
    /\ Failed
    /\ ret = Thrown(2)
    /\ dirty
    /\ changed

\* the part of C17 about refreshBuffer itself: the refreshed view equals the
\* context's store, and neither dirty nor the store changes
RefreshSynchronizes ==
    /\ [](call.op = "refreshBuffer" => imageData = canvas /\ pixels = "Int32Array")
    /\ [][(call'.op = "refreshBuffer") => UNCHANGED <<dirty, canvas>>]_vars

\* C17: after refreshBuffer() the cached view equals the context's store at
\* every pixel, whatever vector operations ran before; refreshBuffer() changes
\* neither dirty nor the context's store; and a getPixel / getPixel32 that
\* follows returns the value the refreshed view holds for its pixel.
C17_RefreshThenRead ==
    /\ RefreshSynchronizes
    /\ [][(/\ call.op = "refreshBuffer"
           /\ call'.op \in {"getPixel", "getPixel32"}
           /\ OnSurface(call'.args[1], call'.args[2]))
            => ret' = Number(imageData[Index(call'.args[1], call'.args[2])])]_vars

GradientOps == {"beginLinearGradientFill", "beginRadialGradientFill",
                "beginLinearGradientStroke", "beginRadialGradientStroke"}

\* C18: each of the four gradient helpers is available and built from
\* primitives only: it creates one gradient through createLinearGradient or
\* createRadialGradient, adds colors.length colour stops pairing ratios[i] with
\* colors[i] in index order, installs the gradient as the fill style (Fill) or
\* the stroke style (Stroke), returns the surface and leaves dirty unchanged.
C18_GradientHelpers ==
    [][(call'.op \in GradientOps)
         => LET colors == call'.args[1]
                ratios == call'.args[2]
                n == Len(issued')
            IN /\ ret' = THIS
               /\ UNCHANGED <<dirty, canvas>>
               /\ n = Len(colors) + 2
               /\ issued'[1].cmd =
                     (IF call'.op \in {"beginLinearGradientFill",
                                       "beginLinearGradientStroke"}
                      THEN "createLinearGradient" ELSE "createRadialGradient")
               /\ \A i \in 1 .. Len(colors) :
                     issued'[i + 1] = Cmd("addColorStop", <<Given(ratios[i]), colors[i]>>)
               /\ issued'[n].cmd =
                     (IF call'.op \in {"beginLinearGradientFill",
                                       "beginRadialGradientFill"}
                      THEN "fillStyle=" ELSE "strokeStyle=")]_vars

\* the three helpers the prototype does define behave as C18 says
DefinedGradientHelpers ==
    [][(call'.op \in GradientOps \ {"beginRadialGradientFill"})
         => LET colors == call'.args[1]
                ratios == call'.args[2]
                n == Len(issued')
            IN /\ ret' = THIS
               /\ UNCHANGED <<dirty, canvas>>
               /\ n = Len(colors) + 2
               /\ \A i \in 1 .. Len(colors) :
                     issued'[i + 1] = Cmd("addColorStop", <<Given(ratios[i]), colors[i]>>)]_vars

\* C19: every setPixel32 call the bounds test accepts (x = width and
\* y = height included) stores at an index y*width+x within
\* 0..width*height-1 and changes the buffer entry of pixel (x,y) only: no
\* other pixel's entry changes and nothing is written past the buffer's end.
C19_WriteStaysInPixel ==
    [][(/\ call'.op = "setPixel32"
        /\ InBounds(call'.args[1], call'.args[2]))
         => LET x == call'.args[1]
                y == call'.args[2]
            IN /\ Index(x, y) \in 0 .. (width * height - 1)
               /\ \A i \in DOMAIN imageData :
                     imageData'[i] # imageData[i] => (OnSurface(x, y) /\ i = Index(x, y))]_vars

\* an accepted write at x = width that changed the entry of another pixel
WrappedWrite ==
    /\ call.op = "setPixel32"
    /\ call.args[1] = width
    /\ Index(call.args[1], call.args[2]) \in DOMAIN imageData
    /\ imageData[Index(call.args[1], call.args[2])] # 0

\* C20: when game.renderType is not WEBGL, render() adds nothing to the
\* texture-upload queue and still takes dirty from true to false, so in that
\* mode the queue stays empty over any sequence of mutations and render()s.
C20_NoUploadOutsideWebGL ==
    /\ [](renderType # WEBGL => texturesToUpdate = <<>>)
    /\ [][(renderType # WEBGL /\ call'.op = "render")
            => /\ UNCHANGED texturesToUpdate
               /\ issued' = <<>>
               /\ ~dirty']_vars

\* a canvas-mode render() that has just cleared dirty after a paint
C20_Witness ==
    /\ renderType = CANVAS
    /\ call.op = "render"
    /\ ~dirty
    /\ \E i \in DOMAIN canvas : canvas[i] # 0
    /\ texturesToUpdate = <<>>

====
